---------------------------- MODULE Spec2Model ----------------------------
(***************************************************************************)
(* Model of bvrd_calc_wrapper/calculator.py: BondCalculator and            *)
(* SBBCalculator, thin clients that assemble a request row table, post it  *)
(* in fixed-size chunks to a remote valuation endpoint and flatten the     *)
(* JSON responses into a valuation table and a cashflow table.             *)
(*                                                                         *)
(* A pandas DataFrame is modelled as a sequence of rows, every row a       *)
(* record over the same set of columns; a cell a row has no value for      *)
(* holds NaN.  A JSON object is a record, a JSON array a sequence.         *)
(***************************************************************************)
EXTENDS Integers, Sequences, FiniteSets, TLC

\* ------------------------------------------------------------- bounds
\* Longest per-row input Series the caller passes.
MaxRows == 3
\* Longest response array handed to _unpack_response on its own.
MaxItems == 3
\* Most rows of a valuation or cashflow table handed to a derived-metric helper.
MaxMetricRows == 2
\* Largest value of the class attribute MAX_ROWS_PER_REQUEST explored.
MaxChunk == 2
\* Longest input Series of each of two interleaved NPV calls.
MaxConcRows == 2

\* ------------------------------------------------------------- values
NaN == "NaN"
None == "None"

\* Instruments the remote engine knows, by the number of flows it returns.
Titulos == {"T0", "T1", "T2"}
\* Correlation ids the caller may supply, in Series order.
Ids == <<"c1", "c2", "c3", "c4", "c5", "c6">>

Min(a, b) == IF a < b THEN a ELSE b

SeqsUpTo(S, n) == UNION {[1..k -> S] : k \in 0..n}

\* Ceil with the division truncated: the last, partial chunk is lost.
CeilTruncated(a, b) == a \div b

\* math.ceil(a / b) for a >= 0, b >= 1
Ceil(a, b) == (a + b - 1) \div b

\* dict.get(key, default)
Get(d, key, default) == IF key \in DOMAIN d THEN d[key] ELSE default

RECURSIVE Flatten(_)
Flatten(ss) == IF Len(ss) = 0 THEN <<>> ELSE Head(ss) \o Flatten(Tail(ss))

\* ------------------------------------------------------------- pandas
\* A column passed to pd.DataFrame(dict): a Series or a scalar.
Series(s) == [kind |-> "series", v |-> s]
Scalar(x) == [kind |-> "scalar", v |-> x]

\* pd.DataFrame(list of dicts): one row per dict, the columns are the union
\* of the keys, a key a dict lacks is NaN in its row.
FromRecords(recs) ==
    LET cols == UNION {DOMAIN recs[j] : j \in 1..Len(recs)}
    IN  [j \in 1..Len(recs) |-> [k \in cols |-> Get(recs[j], k, NaN)]]

\* pd.DataFrame(dict of Series and scalars): the index is the union of the
\* Series' indexes (RangeIndex 0..len-1 each, so the longest one), a Series
\* too short for a row leaves NaN there, a scalar is broadcast.
DataFrame(data) ==
    LET lens == {Len(data[k].v) : k \in {c \in DOMAIN data : data[c].kind = "series"}}
        n == CHOOSE m \in lens : \A l \in lens : l <= m
    IN  [j \in 1..n |->
            [k \in DOMAIN data |->
                IF data[k].kind = "scalar" THEN data[k].v
                ELSE IF j <= Len(data[k].v) THEN data[k].v[j] ELSE NaN]]

EmptyFrame == <<>>

\* DataFrame.empty: no rows or no columns
IsEmpty(df) == Len(df) = 0 \/ \A j \in 1..Len(df) : DOMAIN df[j] = {}

\* pd.concat(frames, ignore_index=True)
Concat(frames) == FromRecords(Flatten(frames))

\* df.iloc[start:end], 0-based and end-exclusive, clipped to the frame
ILoc(df, start, end) == SubSeq(df, start + 1, Min(end, Len(df)))

\* ------------------------------------------------------------- JSON
\* JSON null where an object is expected.
JNull == [json_null |-> TRUE]
IsNull(x) == "json_null" \in DOMAIN x

\* flujo["id_calculo"] = value
SetKey(d, key, value) ==
    [k \in DOMAIN d \cup {key} |-> IF k = key THEN value ELSE d[k]]

\* ------------------------------------------------------------- BVRDCalculator
BASE_URL == "https://calculadora.testinnex.exchange"

\* BVRDCalculator._make_request_body
_make_request_body(usr, pwd, calc_body, config) ==
    [auth |-> [usuario |-> usr, password |-> pwd],
     calculo |-> calc_body,
     config |-> config]

\* ------------------------------------------------------------- BondCalculator
Bond_make_calc_body(isin, input_type, amount_type, input, amount, date, id_calculo) ==
    LET data == [titulo_id |-> isin,
                 tipo_insumo |-> Scalar(input_type),
                 tipo_monto |-> Scalar(amount_type),
                 insumo |-> input,
                 monto |-> amount,
                 fecha_liquidacion |-> date]
    IN  IF id_calculo.kind # "none"
        THEN DataFrame(SetKey(data, "id_calculo", id_calculo))
        ELSE DataFrame(data)

\* Bond_unpack_item as the earlier BVRDCalculator.py has it: every item is
\* read through item.get("titulo_calculo", {}), a flat item gives an empty row.
Bond_unpack_item_always_nested(acc, item) ==
    IF ~acc.ok \/ IsNull(item) THEN [acc EXCEPT !.ok = FALSE]
    ELSE LET titulo_calculo == Get(item, "titulo_calculo", <<>>)
             flujos_titulo == Get(item, "flujos_titulo", <<>>)
         IN  [acc EXCEPT
                 !.valuations = Append(@, titulo_calculo),
                 !.cashflows = @ \o
                    [f \in 1..Len(flujos_titulo) |->
                        SetKey(flujos_titulo[f], "id_calculo",
                               Get(titulo_calculo, "id_calculo", None))]]

\* One step of the loop over the response items of BondCalculator._unpack_response:
\* acc holds valuations, cashflows and whether an item raised.
Bond_unpack_item(acc, item) ==
    IF ~acc.ok \/ IsNull(item) THEN [acc EXCEPT !.ok = FALSE]
    ELSE IF "titulo_calculo" \in DOMAIN item
    THEN LET titulo_calculo == item.titulo_calculo
             flujos_titulo == Get(item, "flujos_titulo", <<>>)
         IN  IF Len(flujos_titulo) > 0 /\ IsNull(titulo_calculo)
             THEN [acc EXCEPT !.ok = FALSE]
             ELSE [acc EXCEPT
                     !.valuations = Append(@, titulo_calculo),
                     !.cashflows = @ \o
                        [f \in 1..Len(flujos_titulo) |->
                            SetKey(flujos_titulo[f], "id_calculo",
                                   Get(titulo_calculo, "id_calculo", None))]]
    ELSE [acc EXCEPT !.valuations = Append(@, item)]

RECURSIVE Bond_unpack_loop(_, _)
Bond_unpack_loop(acc, response) ==
    IF Len(response) = 0 THEN acc
    ELSE Bond_unpack_loop(Bond_unpack_item(acc, Head(response)), Tail(response))

\* BondCalculator._unpack_response: [ok, valuation, cashflows]; ok = FALSE
\* when unpacking raised.
Bond_unpack_response(response) ==
    LET acc == Bond_unpack_loop([ok |-> TRUE, valuations |-> <<>>, cashflows |-> <<>>],
                                response)
    IN  IF ~acc.ok THEN [ok |-> FALSE, valuation |-> EmptyFrame, cashflows |-> EmptyFrame]
        ELSE [ok |-> TRUE,
              valuation |-> FromRecords(acc.valuations),
              cashflows |-> IF Len(acc.cashflows) > 0
                            THEN FromRecords(acc.cashflows) ELSE EmptyFrame]

\* ------------------------------------------------------------- SBBCalculator
SBB_make_calc_body(titulo_id, monto_transado_fwd, monto_transado_spot, monto_nominal, fecha_liquidacion_fwd, fecha_liquidacion_spot, base_dias, id_calculo) ==
    LET data == [titulo_id |-> titulo_id,
                 monto_transado_fwd |-> monto_transado_fwd,
                 monto_transado_spot |-> monto_transado_spot,
                 monto_nominal |-> monto_nominal,
                 fecha_liquidacion_fwd |-> fecha_liquidacion_fwd,
                 fecha_liquidacion_spot |-> fecha_liquidacion_spot,
                 base_dias |-> Scalar(base_dias)]
    IN  IF id_calculo.kind # "none"
        THEN DataFrame(SetKey(data, "id_calculo", id_calculo))
        ELSE DataFrame(data)

\* item["calculo_estructurado"] and item.get("flujos_estructurado", []) succeed
SBB_item_ok(item) ==
    /\ ~IsNull(item)
    /\ "calculo_estructurado" \in DOMAIN item

\* SBBCalculator._unpack_response
SBB_unpack_response(response) ==
    IF \E j \in 1..Len(response) : ~SBB_item_ok(response[j])
    THEN [ok |-> FALSE, valuation |-> EmptyFrame, cashflows |-> EmptyFrame]
    ELSE [ok |-> TRUE,
          valuation |-> FromRecords([j \in 1..Len(response) |->
                                        response[j].calculo_estructurado]),
          cashflows |-> FromRecords(Flatten([j \in 1..Len(response) |->
                                        Get(response[j], "flujos_estructurado", <<>>)]))]

\* ------------------------------------------------------------- remote endpoint
\* The remote valuation engine, outside the repository: it answers a request
\* with one item per request row, in request order, each computed from its
\* row and the request's config alone.
FlowDates == <<"2025-01-15", "2025-07-15">>

NFlows(titulo) == IF titulo = "T1" THEN 1 ELSE IF titulo = "T2" THEN 2 ELSE 0

EngineValuation(row) ==
    IF "id_calculo" \in DOMAIN row
    THEN [titulo_id |-> row.titulo_id, id_calculo |-> row.id_calculo, precio_sucio |-> "101.5"]
    ELSE [titulo_id |-> row.titulo_id, precio_sucio |-> "101.5"]

EngineFlows(row) ==
    [f \in 1..NFlows(row.titulo_id) |->
        [titulo_id |-> row.titulo_id, fecha_flujo_str |-> FlowDates[f]]]

\* POST /apicbbvrd: the nested shape with cashflows, or the flat legacy shape
BondEngineItem(row, config) ==
    IF config.with_flujos
    THEN [titulo_calculo |-> EngineValuation(row), flujos_titulo |-> EngineFlows(row)]
    ELSE EngineValuation(row)

\* POST /apicbbvrd_estructurado_rwd
SBBEngineItem(row, config) ==
    IF config.with_flujos
    THEN [calculo_estructurado |-> EngineValuation(row),
          flujos_estructurado |-> EngineFlows(row)]
    ELSE [calculo_estructurado |-> EngineValuation(row)]

\* response.json() of a successful POST of `json` to `url`
EndpointResponse(url, json) ==
    [j \in 1..Len(json.calculo) |->
        IF url = BASE_URL \o "/apicbbvrd"
        THEN BondEngineItem(json.calculo[j], json.config)
        ELSE SBBEngineItem(json.calculo[j], json.config)]

\* A 2xx response whose last item is JSON null: unpacking it raises.
MalformedResponse(url, json) ==
    [j \in 1..Len(json.calculo) |->
        IF j = Len(json.calculo) THEN JNull ELSE EndpointResponse(url, json)[j]]

\* ------------------------------------------------------------- state
VARIABLES
    self,               \* the calculator: class, username, password, MAX_ROWS_PER_REQUEST
    args,               \* the arguments of the NPV call
    pc,                 \* position of the NPV call
    df,                 \* the assembled request row table
    num_chunks,
    i,                  \* loop index
    valuation_chunks,
    cashflow_chunks,
    posts,              \* every requests.post issued so far: [url, json]
    logs,               \* every logger call so far: [level, msg, n]
    result,             \* <<>> or <<the returned pair of tables>>
    raised              \* <<>> or <<the exception propagated to the caller>>

vars == <<self, args, pc, df, num_chunks, i, valuation_chunks, cashflow_chunks,
          posts, logs, result, raised>>

NoneArg == [kind |-> "none", v |-> <<>>]

Log(level, msg, n) == [level |-> level, msg |-> msg, n |-> n]

Init ==
    /\ self \in [cls : {"BondCalculator", "SBBCalculator"},
                 username : {"quantech"},
                 password : {"s3cret"},
                 MAX_ROWS_PER_REQUEST : 1..MaxChunk]
    /\ \E isin \in SeqsUpTo(Titulos, MaxRows), nd \in 0..MaxRows, nid \in -1..MaxRows,
          wf \in BOOLEAN :
          args = [isin |-> Series(isin),
                  date |-> Series([j \in 1..nd |-> "2024-07-19"]),
                  id_calculo |-> IF nid < 0 THEN NoneArg ELSE Series(SubSeq(Ids, 1, nid)),
                  with_flujos |-> wf,
                  round_precision |-> 6]
    /\ pc = "idle"
    /\ df = EmptyFrame
    /\ num_chunks = 0
    /\ i = 0
    /\ valuation_chunks = <<>>
    /\ cashflow_chunks = <<>>
    /\ posts = <<>>
    /\ logs = <<>>
    /\ result = <<>>
    /\ raised = <<>>

\* ------------------------------------------------------------- NPV
\* The table NPV assembles from its arguments (calculator.py 146-148, 291-300).
MakeCalcBody(slf, a) ==
    IF slf.cls = "BondCalculator"
    THEN Bond_make_calc_body(a.isin, "r", "n", Scalar("10"), Scalar("1000000"),
                             a.date, a.id_calculo)
    ELSE SBB_make_calc_body(a.isin, Scalar("315624.05"), Scalar("315206.68"),
                            Scalar("300000"), a.date, Scalar("2024-07-19"),
                            "360", a.id_calculo)

Endpoint(slf) ==
    IF slf.cls = "BondCalculator" THEN "/apicbbvrd" ELSE "/apicbbvrd_estructurado_rwd"

\* BondCalculator.NPV: the request body of one chunk
Bond_request_body(slf, a, records) ==
    _make_request_body(slf.username, slf.password, records,
                       [with_flujos |-> a.with_flujos])

\* SBBCalculator.NPV: the request body of one chunk, built inline
SBB_request_body(slf, a, records) ==
    [calculo |-> records,
     config |-> [with_flujos |-> a.with_flujos, round |-> a.round_precision]]

RequestBody(slf, a, records) ==
    IF slf.cls = "BondCalculator"
    THEN Bond_request_body(slf, a, records)
    ELSE SBB_request_body(slf, a, records)

UnpackResponse(slf, response) ==
    IF slf.cls = "BondCalculator"
    THEN Bond_unpack_response(response)
    ELSE SBB_unpack_response(response)

\* ChunkOf with an inclusive end taken for iloc's exclusive one: each chunk
\* loses its last row.
ChunkOfEndInclusive(d, size, k) == ILoc(d, k * size, k * size + size - 1)

\* chunk_df = df.iloc[start:end] of iteration k of the loop
ChunkOf(d, size, k) == ILoc(d, k * size, k * size + size)

\* The request in flight while pc = "posting"
InFlight == posts[Len(posts)]

\* NPVEmpty without the total_rows == 0 short-circuit: the call goes on to
\* the chunk loop.
NPVEmptyNoGuard ==
    /\ pc = "idle"
    /\ LET d == MakeCalcBody(self, args)
       IN  /\ Len(d) = 0
           /\ df' = d
           /\ logs' = Append(logs, Log("info", "Processing rows in chunks", Len(d)))
           /\ num_chunks' = Ceil(Len(d), self.MAX_ROWS_PER_REQUEST)
    /\ i' = 0
    /\ valuation_chunks' = <<>>
    /\ cashflow_chunks' = <<>>
    /\ pc' = "loop"
    /\ UNCHANGED <<self, args, posts, result, raised>>

\* NPV on an input that assembles to zero rows
NPVEmpty ==
    /\ pc = "idle"
    /\ LET d == MakeCalcBody(self, args)
       IN  /\ Len(d) = 0
           /\ df' = d
    /\ logs' = Append(logs, Log("warning", "Empty input for NPV calculation.", 0))
    /\ result' = <<[valuation |-> EmptyFrame, cashflows |-> EmptyFrame]>>
    /\ pc' = "returned"
    /\ UNCHANGED <<self, args, num_chunks, i, valuation_chunks, cashflow_chunks,
                   posts, raised>>

\* NPV up to the head of the chunk loop
NPVStart ==
    /\ pc = "idle"
    /\ LET d == MakeCalcBody(self, args)
       IN  /\ Len(d) > 0
           /\ df' = d
           /\ logs' = Append(logs, Log("info", "Processing rows in chunks", Len(d)))
           /\ num_chunks' = Ceil(Len(d), self.MAX_ROWS_PER_REQUEST)
    /\ i' = 0
    /\ valuation_chunks' = <<>>
    /\ cashflow_chunks' = <<>>
    /\ pc' = "loop"
    /\ UNCHANGED <<self, args, posts, result, raised>>

\* One iteration up to requests.post: slice the chunk, build the body, post it
SendChunk ==
    /\ pc = "loop"
    /\ i < num_chunks
    /\ LET chunk_df == ChunkOf(df, self.MAX_ROWS_PER_REQUEST, i)
           request_body == RequestBody(self, args, chunk_df)
       IN  /\ logs' = Append(logs, Log("debug", "Sending chunk", i + 1))
           /\ posts' = Append(posts, [url |-> BASE_URL \o Endpoint(self),
                                      json |-> request_body])
    /\ pc' = "posting"
    /\ UNCHANGED <<self, args, df, num_chunks, i, valuation_chunks, cashflow_chunks,
                   result, raised>>

\* The POST succeeds and the response unpacks: accumulate, next iteration
ChunkOk ==
    /\ pc = "posting"
    /\ LET response == EndpointResponse(InFlight.url, InFlight.json)
           u == UnpackResponse(self, response)
       IN  /\ u.ok
           /\ valuation_chunks' = Append(valuation_chunks, u.valuation)
           /\ cashflow_chunks' = IF ~IsEmpty(u.cashflows)
                                 THEN Append(cashflow_chunks, u.cashflows)
                                 ELSE cashflow_chunks
    /\ i' = i + 1
    /\ pc' = "loop"
    /\ UNCHANGED <<self, args, df, num_chunks, posts, logs, result, raised>>

\* ChunkPostFails with the handler swallowing the exception: the loop goes
\* on to the next chunk.
ChunkPostFailsSwallowed ==
    /\ pc = "posting"
    /\ logs' = logs \o <<Log("error", "API call failed", 0),
                         Log("error", "Chunk failed", i + 1)>>
    /\ i' = i + 1
    /\ pc' = "loop"
    /\ UNCHANGED <<self, args, df, num_chunks, valuation_chunks, cashflow_chunks,
                   posts, result, raised>>

\* requests.post or raise_for_status raises: _call_api logs and re-raises,
\* the loop's handler logs the chunk and re-raises
ChunkPostFails ==
    /\ pc = "posting"
    /\ logs' = logs \o <<Log("error", "API call failed", 0),
                         Log("error", "Chunk failed", i + 1)>>
    /\ raised' = <<"RequestException">>
    /\ pc' = "failed"
    /\ UNCHANGED <<self, args, df, num_chunks, i, valuation_chunks, cashflow_chunks,
                   posts, result>>

\* The POST succeeds but _unpack_response raises on the response
ChunkUnpackFails ==
    /\ pc = "posting"
    /\ LET response == MalformedResponse(InFlight.url, InFlight.json)
           u == UnpackResponse(self, response)
       IN  ~u.ok
    /\ logs' = Append(logs, Log("error", "Chunk failed", i + 1))
    /\ raised' = <<"TypeError">>
    /\ pc' = "failed"
    /\ UNCHANGED <<self, args, df, num_chunks, i, valuation_chunks, cashflow_chunks,
                   posts, result>>

\* After the loop: concatenate and return
NPVReturn ==
    /\ pc = "loop"
    /\ i = num_chunks
    /\ result' = <<[valuation |-> Concat(valuation_chunks),
                    cashflows |-> IF Len(cashflow_chunks) > 0
                                  THEN Concat(cashflow_chunks) ELSE EmptyFrame]>>
    /\ pc' = "returned"
    /\ UNCHANGED <<self, args, df, num_chunks, i, valuation_chunks, cashflow_chunks,
                   posts, logs, raised>>

Next ==
    \/ NPVEmpty
    \/ NPVStart
    \/ SendChunk
    \/ ChunkOk
    \/ ChunkPostFails
    \/ ChunkUnpackFails
    \/ NPVReturn

Spec == Init /\ [][Next]_vars

\* ------------------------------------------------------------- properties
IsNPV == pc \in {"idle", "loop", "posting", "returned", "failed"}

\* What NPV would return from one request carrying every row of df.
Unchunked ==
    LET u == UnpackResponse(self,
                 EndpointResponse(BASE_URL \o Endpoint(self), RequestBody(self, args, df)))
    IN  [valuation |-> Concat(<<u.valuation>>),
         cashflows |-> IF ~IsEmpty(u.cashflows) THEN Concat(<<u.cashflows>>) ELSE EmptyFrame]

C2_EmptyInputShortCircuits ==
    (IsNPV /\ Len(MakeCalcBody(self, args)) = 0) =>
        /\ posts = <<>>
        /\ pc \in {"idle", "returned"}
        /\ pc = "returned" =>
            /\ result = <<[valuation |-> EmptyFrame, cashflows |-> EmptyFrame]>>
            /\ logs = <<Log("warning", "Empty input for NPV calculation.", 0)>>
            /\ raised = <<>>

C2_Witness ==
    /\ pc = "returned"
    /\ Len(df) = 0
    /\ Len(logs) = 1
    /\ args.id_calculo.kind = "series"

ChunkFailed == \E j \in 1..Len(logs) : logs[j].msg = "Chunk failed"

\* C3: once chunk k has failed, in the POST or in the unpacking, the call has
\* ended by raising, has returned no table although the chunks before k were
\* accumulated, has posted chunks 1..k only, and never posts again.
C3_FailFast ==
    /\ [](ChunkFailed =>
            /\ pc = "failed"
            /\ raised # <<>>
            /\ result = <<>>
            /\ Len(posts) = logs[Len(logs)].n
            /\ Len(valuation_chunks) = Len(posts) - 1)
    /\ [][ChunkFailed => (posts' = posts /\ result' = <<>>)]_vars

C3_Witness ==
    /\ pc = "failed"
    /\ Len(valuation_chunks) >= 1
    /\ Len(posts) < num_chunks

\* The rows at 0-based positions [k*S, min((k+1)*S, N)) of df
RowsOfChunk(k) ==
    LET S == self.MAX_ROWS_PER_REQUEST
    IN  [j \in 1..(Min((k + 1) * S, Len(df)) - k * S) |-> df[k * S + j]]

\* C4: the POSTs are issued one at a time in ascending chunk order, each only
\* after the previous response was accumulated; the k-th carries the rows
\* [k*S, min((k+1)*S, N)), which is never empty; a successful call has issued
\* exactly ceil(N/S) of them, which together are the table.
C4_SequentialChunks ==
    IsNPV =>
        /\ \A k \in 1..Len(posts) :
            /\ posts[k].json.calculo = RowsOfChunk(k - 1)
            /\ Len(posts[k].json.calculo) >= 1
        /\ pc \in {"loop", "returned"} => Len(valuation_chunks) = Len(posts)
        /\ pc = "posting" => Len(valuation_chunks) = Len(posts) - 1
        /\ (pc = "returned" /\ Len(df) > 0) =>
            /\ Len(posts) * self.MAX_ROWS_PER_REQUEST >= Len(df)
            /\ (Len(posts) - 1) * self.MAX_ROWS_PER_REQUEST < Len(df)
            /\ Flatten([k \in 1..Len(posts) |-> posts[k].json.calculo]) = df

C4_Witness ==
    /\ pc = "returned"
    /\ Len(posts) = 2
    /\ Len(posts[1].json.calculo) = 2
    /\ Len(posts[2].json.calculo) = 1

\* C5: every posted body has exactly the parts auth, calculo and config, auth
\* holding the constructor's usuario and password, config being {with_flujos}
\* for bonds and {with_flujos, round} for structured bonds.
C5_BodyHasAuth ==
    \A k \in 1..Len(posts) :
        LET body == posts[k].json
        IN  /\ DOMAIN body = {"auth", "calculo", "config"}
            /\ body.auth = [usuario |-> self.username, password |-> self.password]
            /\ body.calculo = RowsOfChunk(k - 1)
            /\ body.config =
                 IF self.cls = "BondCalculator"
                 THEN [with_flujos |-> args.with_flujos]
                 ELSE [with_flujos |-> args.with_flujos, round |-> args.round_precision]

\* The per-row Series the caller passed do not all have the same length.
LengthsDisagree ==
    \E a, b \in {Len(args.isin.v), Len(args.date.v)} \cup
                (IF args.id_calculo.kind = "series" THEN {Len(args.id_calculo.v)} ELSE {}) :
        a # b

\* C8: on per-row arrays of different lengths no row table is built and no
\* POST is issued.
C8_MismatchedLengthsFail ==
    (IsNPV /\ LengthsDisagree) =>
        /\ df = EmptyFrame
        /\ posts = <<>>
        /\ result = <<>>

\* ------------------------------------------------------------- _unpack_response on its own
\* Response items a 2xx response may carry, well-formed or not.
ItemIds == {"c1", "c2"}

ItemFlows(n) == [f \in 1..n |-> [fecha_flujo_str |-> FlowDates[f], tasa_interes |-> "9.5"]]

BondItems ==
    {[titulo_calculo |-> [id_calculo |-> c, precio_sucio |-> "101.5"],
      flujos_titulo |-> ItemFlows(n)] : c \in ItemIds, n \in 0..2}
    \cup {[titulo_calculo |-> [id_calculo |-> c, precio_sucio |-> "101.5"]] : c \in ItemIds}
    \cup {[titulo_calculo |-> [precio_sucio |-> "101.5"], flujos_titulo |-> ItemFlows(1)]}
    \cup {[id_calculo |-> c, precio_limpio |-> "99.0"] : c \in ItemIds}
    \cup {[id_calculo |-> "c1", flujos_titulo |-> ItemFlows(1)]}

SBBItems ==
    {[calculo_estructurado |-> [id_calculo |-> c, rendimiento |-> "0.15"],
      flujos_estructurado |-> ItemFlows(n)] : c \in ItemIds, n \in 0..2}
    \cup {[calculo_estructurado |-> [id_calculo |-> c, rendimiento |-> "0.15"]] : c \in ItemIds}
    \cup {[error |-> "titulo desconocido"], JNull}

InitUnpack ==
    /\ self \in [cls : {"BondCalculator", "SBBCalculator"},
                 username : {"quantech"},
                 password : {"s3cret"},
                 MAX_ROWS_PER_REQUEST : {MaxChunk}]
    /\ args \in [response : IF self.cls = "BondCalculator"
                            THEN SeqsUpTo(BondItems, MaxItems)
                            ELSE SeqsUpTo(SBBItems, MaxItems)]
    /\ pc = "unpack"
    /\ df = EmptyFrame
    /\ num_chunks = 0
    /\ i = 0
    /\ valuation_chunks = <<>>
    /\ cashflow_chunks = <<>>
    /\ posts = <<>>
    /\ logs = <<>>
    /\ result = <<>>
    /\ raised = <<>>

\* _unpack_response(response) returns its pair of tables
UnpackReturns ==
    /\ pc = "unpack"
    /\ LET u == UnpackResponse(self, args.response)
       IN  /\ u.ok
           /\ result' = <<[valuation |-> u.valuation, cashflows |-> u.cashflows]>>
    /\ pc' = "unpacked"
    /\ UNCHANGED <<self, args, df, num_chunks, i, valuation_chunks, cashflow_chunks,
                   posts, logs, raised>>

\* _unpack_response(response) raises
UnpackRaises ==
    /\ pc = "unpack"
    /\ ~UnpackResponse(self, args.response).ok
    /\ raised' = <<"KeyError">>
    /\ pc' = "unpack_failed"
    /\ UNCHANGED <<self, args, df, num_chunks, i, valuation_chunks, cashflow_chunks,
                   posts, logs, result>>

NextUnpack == UnpackReturns \/ UnpackRaises

SpecUnpack == InitUnpack /\ [][NextUnpack]_vars

\* row is the dict d as a table row: d's values under d's keys, NaN elsewhere
RowIs(row, d) ==
    /\ DOMAIN d \subseteq DOMAIN row
    /\ \A k \in DOMAIN row : row[k] = (IF k \in DOMAIN d THEN d[k] ELSE NaN)

IsNested(item) == "titulo_calculo" \in DOMAIN item

\* The flows a bond item contributes: its flujos_titulo when it has the
\* nested key, none otherwise
BondFlowsOf(item) ==
    IF IsNested(item) /\ "flujos_titulo" \in DOMAIN item THEN item.flujos_titulo ELSE <<>>

\* The 1-based position in the cashflow table of flow f of item j
FlowPos(flows, j, f) == Len(Flatten(SubSeq(flows, 1, j - 1))) + f

\* C6: BondCalculator._unpack_response gives one valuation row per item, in
\* item order: the titulo_calculo sub-object of an item that has the key, the
\* item itself otherwise; the cashflow rows are the flujos_titulo of the items
\* that have the key, whatever the shape of the other items of the response.
C6_PerItemClassification ==
    (pc = "unpacked" /\ self.cls = "BondCalculator") =>
        LET response == args.response
            flows == [j \in 1..Len(response) |-> BondFlowsOf(response[j])]
            valuation == result[1].valuation
            cashflows == result[1].cashflows
        IN  /\ Len(valuation) = Len(response)
            /\ \A j \in 1..Len(response) :
                 RowIs(valuation[j],
                       IF IsNested(response[j]) THEN response[j].titulo_calculo
                       ELSE response[j])
            /\ Len(cashflows) = Len(Flatten(flows))
            /\ \A j \in 1..Len(response) : \A f \in 1..Len(flows[j]) :
                 \A k \in DOMAIN flows[j][f] :
                    cashflows[FlowPos(flows, j, f)][k] = flows[j][f][k]

C6_Witness ==
    /\ pc = "unpacked"
    /\ self.cls = "BondCalculator"
    /\ Len(args.response) = 3
    /\ ~IsNested(args.response[1])
    /\ IsNested(args.response[2])
    /\ ~IsNested(args.response[3])
    /\ Len(result[1].cashflows) = 2

\* The flows nested in a response item and the correlation id of that item
FlowsOf(cls, item) ==
    IF cls = "BondCalculator" THEN BondFlowsOf(item)
    ELSE Get(item, "flujos_estructurado", <<>>)

ParentId(cls, item) ==
    IF cls = "BondCalculator" THEN Get(item.titulo_calculo, "id_calculo", None)
    ELSE Get(item.calculo_estructurado, "id_calculo", None)

\* C10: for both calculators the cashflow table holds every flow of every
\* item once, in item then flow order, each carrying the correlation id of
\* the item it was nested in, and is the empty table when there is no flow.
C10_FlowsTaggedWithParent ==
    pc = "unpacked" =>
        LET response == args.response
            flows == [j \in 1..Len(response) |-> FlowsOf(self.cls, response[j])]
            cashflows == result[1].cashflows
        IN  /\ Len(cashflows) = Len(Flatten(flows))
            /\ \A j \in 1..Len(response) : \A f \in 1..Len(flows[j]) :
                 LET row == cashflows[FlowPos(flows, j, f)]
                 IN  /\ \A k \in DOMAIN flows[j][f] : row[k] = flows[j][f][k]
                     /\ "id_calculo" \in DOMAIN row
                     /\ row.id_calculo = ParentId(self.cls, response[j])
            /\ Len(Flatten(flows)) = 0 => cashflows = EmptyFrame

\* ------------------------------------------------------------- derived metrics
\* A float64 cell: a rational num/den, with 1/0 for inf and a flag for NaN.
Float(x) == [nan |-> FALSE, num |-> x, den |-> 1]
FNaN == [nan |-> TRUE, num |-> 0, den |-> 0]
FInf == [nan |-> FALSE, num |-> 1, den |-> 0]

\* float64 division, elementwise: x/0 is inf, 0/0 and anything with NaN is NaN
FloatDiv(a, b) ==
    IF a.nan \/ b.nan THEN FNaN
    ELSE IF b.num = 0 THEN (IF a.num = 0 THEN FNaN ELSE FInf)
    ELSE [nan |-> FALSE, num |-> a.num * b.den, den |-> a.den * b.num]

\* valuation_df[name]
Column(frame, name) == [j \in 1..Len(frame) |-> frame[j][name]]

\* SeriesReplace that leaves the Series as it is
SeriesReplaceNothing(series, old, new) == series

\* Series.replace(old, new)
SeriesReplace(series, old, new) ==
    [j \in 1..Len(series) |-> IF series[j] = old THEN new ELSE series[j]]

\* Series / Series over the same index
SeriesDiv(a, b) == [j \in 1..Len(a) |-> FloatDiv(a[j], b[j])]

\* BondCalculator.current_yield
current_yield(valuation_df) ==
    SeriesDiv(Column(valuation_df, "cupon"),
              SeriesReplace(Column(valuation_df, "precio_sucio"), Float(0), FNaN))

\* BondCalculator.duration_to_convexity
duration_to_convexity(valuation_df) ==
    SeriesDiv(Column(valuation_df, "modified_duration"),
              SeriesReplace(Column(valuation_df, "convexidad"), Float(0), FNaN))

\* The rows of cashflows_df[["id_calculo", "fecha_flujo_str", "tasa_interes"]]
\* whose key is that of the valuation row, in cashflow order
MergeMatches(left_row, right) ==
    SelectSeq(right, LAMBDA r : /\ r.id_calculo = left_row.id_calculo
                                /\ r.fecha_flujo_str = left_row.fecha_liquidacion_str)

\* The output rows of one valuation row: one per match, or one with the
\* right-hand columns missing
MergeRows(left_row, right) ==
    LET m == MergeMatches(left_row, right)
    IN  IF Len(m) = 0
        THEN <<[id_calculo |-> left_row.id_calculo,
                fecha_liquidacion_str |-> left_row.fecha_liquidacion_str,
                fecha_flujo_str |-> NaN,
                tasa_interes |-> NaN]>>
        ELSE [k \in 1..Len(m) |->
                [id_calculo |-> left_row.id_calculo,
                 fecha_liquidacion_str |-> left_row.fecha_liquidacion_str,
                 fecha_flujo_str |-> m[k].fecha_flujo_str,
                 tasa_interes |-> m[k].tasa_interes]]

\* BondCalculator.add_coupon_rate: DataFrame.merge(how="left") in left order
add_coupon_rate(valuation_df, cashflows_df) ==
    Flatten([j \in 1..Len(valuation_df) |-> MergeRows(valuation_df[j], cashflows_df)])

MetricRows ==
    [cupon : {Float(0), Float(5)},
     precio_sucio : {Float(0), Float(100)},
     modified_duration : {Float(0), Float(4)},
     convexidad : {Float(0), Float(20)}]

JoinDates == {"2025-01-15", "2025-07-15"}

JoinValuationRows == [id_calculo : ItemIds, fecha_liquidacion_str : JoinDates]

JoinCashflowRows ==
    [id_calculo : ItemIds, fecha_flujo_str : JoinDates, tasa_interes : {"9.5", "10.0"}]

InitMetrics ==
    /\ self \in [cls : {"BondCalculator"},
                 username : {"quantech"},
                 password : {"s3cret"},
                 MAX_ROWS_PER_REQUEST : {MaxChunk}]
    /\ \/ /\ pc \in {"current_yield", "duration_to_convexity"}
          /\ args \in [valuation_df : SeqsUpTo(MetricRows, MaxMetricRows)]
       \/ /\ pc = "add_coupon_rate"
          /\ args \in [valuation_df : SeqsUpTo(JoinValuationRows, MaxMetricRows),
                       cashflows_df : SeqsUpTo(JoinCashflowRows, MaxMetricRows)]
    /\ df = EmptyFrame
    /\ num_chunks = 0
    /\ i = 0
    /\ valuation_chunks = <<>>
    /\ cashflow_chunks = <<>>
    /\ posts = <<>>
    /\ logs = <<>>
    /\ result = <<>>
    /\ raised = <<>>

CurrentYield ==
    /\ pc = "current_yield"
    /\ result' = <<current_yield(args.valuation_df)>>
    /\ pc' = "current_yield_returned"
    /\ UNCHANGED <<self, args, df, num_chunks, i, valuation_chunks, cashflow_chunks,
                   posts, logs, raised>>

DurationToConvexity ==
    /\ pc = "duration_to_convexity"
    /\ result' = <<duration_to_convexity(args.valuation_df)>>
    /\ pc' = "duration_to_convexity_returned"
    /\ UNCHANGED <<self, args, df, num_chunks, i, valuation_chunks, cashflow_chunks,
                   posts, logs, raised>>

AddCouponRate ==
    /\ pc = "add_coupon_rate"
    /\ result' = <<add_coupon_rate(args.valuation_df, args.cashflows_df)>>
    /\ pc' = "add_coupon_rate_returned"
    /\ UNCHANGED <<self, args, df, num_chunks, i, valuation_chunks, cashflow_chunks,
                   posts, logs, raised>>

NextMetrics == CurrentYield \/ DurationToConvexity \/ AddCouponRate

SpecMetrics == InitMetrics /\ [][NextMetrics]_vars

\* The cashflow rows with the key of valuation row j
MatchCount(j) ==
    Cardinality({k \in 1..Len(args.cashflows_df) :
        /\ args.cashflows_df[k].id_calculo = args.valuation_df[j].id_calculo
        /\ args.cashflows_df[k].fecha_flujo_str = args.valuation_df[j].fecha_liquidacion_str})

\* C7: add_coupon_rate returns one row per valuation row, in order, whatever
\* number of cashflow rows carry the row's key; an unmatched row is kept with
\* tasa_interes missing.
C7_LeftJoinKeepsRowCount ==
    pc = "add_coupon_rate_returned" =>
        /\ Len(result[1]) = Len(args.valuation_df)
        /\ \A j \in 1..Len(args.valuation_df) :
            /\ result[1][j].id_calculo = args.valuation_df[j].id_calculo
            /\ result[1][j].fecha_liquidacion_str = args.valuation_df[j].fecha_liquidacion_str
            /\ MatchCount(j) = 0 => result[1][j].tasa_interes = NaN

\* C9: current_yield and duration_to_convexity return, row by row, the
\* missing value where the denominator is 0 and numerator / denominator
\* elsewhere, whatever the other rows hold.
C9_ZeroGuardedRatios ==
    /\ pc = "current_yield_returned" =>
        /\ Len(result[1]) = Len(args.valuation_df)
        /\ \A j \in 1..Len(args.valuation_df) :
            LET row == args.valuation_df[j]
            IN  result[1][j] =
                    IF row.precio_sucio.num = 0 THEN FNaN
                    ELSE [nan |-> FALSE, num |-> row.cupon.num, den |-> row.precio_sucio.num]
    /\ pc = "duration_to_convexity_returned" =>
        /\ Len(result[1]) = Len(args.valuation_df)
        /\ \A j \in 1..Len(args.valuation_df) :
            LET row == args.valuation_df[j]
            IN  result[1][j] =
                    IF row.convexidad.num = 0 THEN FNaN
                    ELSE [nan |-> FALSE, num |-> row.modified_duration.num,
                          den |-> row.convexidad.num]

C9_Witness ==
    /\ pc = "current_yield_returned"
    /\ Len(args.valuation_df) = 2
    /\ args.valuation_df[1].precio_sucio = Float(0)
    /\ args.valuation_df[1].cupon = Float(5)
    /\ args.valuation_df[2].precio_sucio = Float(100)
    /\ result[1] = <<FNaN, [nan |-> FALSE, num |-> args.valuation_df[2].cupon.num, den |-> 100]>>

\* ------------------------------------------------------------- two interleaved NPV calls
\* Two NPV invocations on one calculator instance, each in its own thread,
\* interleaved at the granularity of the steps of the chunk loop.  Here every
\* variable but self maps a call to that call's value: its arguments, its
\* position, its local variables, the requests it posted, the lines it
\* logged, what it returned or raised.
Calls == {1, 2}

\* The accumulators a call appends to, as if they were attributes of the
\* instance: every call uses the same pair of lists.
AccumulatorsOnInstance(c) == 1

\* The accumulators call c appends to: valuation_chunks and cashflow_chunks
\* are locals of the invocation, so its own.
Accumulators(c) == c

ConcTitulos == {"T0", "T2"}

ConcArgs ==
    {[isin |-> Series(isin),
      date |-> Series([j \in 1..Len(isin) |-> "2024-07-19"]),
      id_calculo |-> NoneArg,
      with_flujos |-> wf,
      round_precision |-> 6] : isin \in SeqsUpTo(ConcTitulos, MaxConcRows), wf \in BOOLEAN}

InitConc ==
    /\ self \in [cls : {"BondCalculator", "SBBCalculator"},
                 username : {"quantech"},
                 password : {"s3cret"},
                 MAX_ROWS_PER_REQUEST : 1..MaxChunk]
    /\ args \in [Calls -> ConcArgs]
    /\ pc = [c \in Calls |-> "idle"]
    /\ df = [c \in Calls |-> EmptyFrame]
    /\ num_chunks = [c \in Calls |-> 0]
    /\ i = [c \in Calls |-> 0]
    /\ valuation_chunks = [c \in Calls |-> <<>>]
    /\ cashflow_chunks = [c \in Calls |-> <<>>]
    /\ posts = [c \in Calls |-> <<>>]
    /\ logs = [c \in Calls |-> <<>>]
    /\ result = [c \in Calls |-> <<>>]
    /\ raised = [c \in Calls |-> <<>>]

\* NPVEmpty of call c
ConcNPVEmpty(c) ==
    /\ pc[c] = "idle"
    /\ LET d == MakeCalcBody(self, args[c])
       IN  /\ Len(d) = 0
           /\ df' = [df EXCEPT ![c] = d]
    /\ logs' = [logs EXCEPT ![c] = Append(@, Log("warning", "Empty input for NPV calculation.", 0))]
    /\ result' = [result EXCEPT ![c] = <<[valuation |-> EmptyFrame, cashflows |-> EmptyFrame]>>]
    /\ pc' = [pc EXCEPT ![c] = "returned"]
    /\ UNCHANGED <<self, args, num_chunks, i, valuation_chunks, cashflow_chunks,
                   posts, raised>>

\* NPVStart of call c
ConcNPVStart(c) ==
    /\ pc[c] = "idle"
    /\ LET d == MakeCalcBody(self, args[c])
       IN  /\ Len(d) > 0
           /\ df' = [df EXCEPT ![c] = d]
           /\ logs' = [logs EXCEPT ![c] = Append(@, Log("info", "Processing rows in chunks", Len(d)))]
           /\ num_chunks' = [num_chunks EXCEPT ![c] = Ceil(Len(d), self.MAX_ROWS_PER_REQUEST)]
    /\ i' = [i EXCEPT ![c] = 0]
    /\ valuation_chunks' = [valuation_chunks EXCEPT ![Accumulators(c)] = <<>>]
    /\ cashflow_chunks' = [cashflow_chunks EXCEPT ![Accumulators(c)] = <<>>]
    /\ pc' = [pc EXCEPT ![c] = "loop"]
    /\ UNCHANGED <<self, args, posts, result, raised>>

\* SendChunk of call c
ConcSendChunk(c) ==
    /\ pc[c] = "loop"
    /\ i[c] < num_chunks[c]
    /\ LET chunk_df == ChunkOf(df[c], self.MAX_ROWS_PER_REQUEST, i[c])
           request_body == RequestBody(self, args[c], chunk_df)
       IN  /\ logs' = [logs EXCEPT ![c] = Append(@, Log("debug", "Sending chunk", i[c] + 1))]
           /\ posts' = [posts EXCEPT ![c] = Append(@, [url |-> BASE_URL \o Endpoint(self),
                                                       json |-> request_body])]
    /\ pc' = [pc EXCEPT ![c] = "posting"]
    /\ UNCHANGED <<self, args, df, num_chunks, i, valuation_chunks, cashflow_chunks,
                   result, raised>>

\* ChunkOk of call c: the response to the request c has in flight
ConcChunkOk(c) ==
    /\ pc[c] = "posting"
    /\ LET request == posts[c][Len(posts[c])]
           response == EndpointResponse(request.url, request.json)
           u == UnpackResponse(self, response)
       IN  /\ u.ok
           /\ valuation_chunks' = [valuation_chunks EXCEPT
                                      ![Accumulators(c)] = Append(@, u.valuation)]
           /\ cashflow_chunks' = IF ~IsEmpty(u.cashflows)
                                 THEN [cashflow_chunks EXCEPT
                                          ![Accumulators(c)] = Append(@, u.cashflows)]
                                 ELSE cashflow_chunks
    /\ i' = [i EXCEPT ![c] = @ + 1]
    /\ pc' = [pc EXCEPT ![c] = "loop"]
    /\ UNCHANGED <<self, args, df, num_chunks, posts, logs, result, raised>>

\* ChunkPostFails of call c
ConcChunkPostFails(c) ==
    /\ pc[c] = "posting"
    /\ logs' = [logs EXCEPT ![c] = @ \o <<Log("error", "API call failed", 0),
                                          Log("error", "Chunk failed", i[c] + 1)>>]
    /\ raised' = [raised EXCEPT ![c] = <<"RequestException">>]
    /\ pc' = [pc EXCEPT ![c] = "failed"]
    /\ UNCHANGED <<self, args, df, num_chunks, i, valuation_chunks, cashflow_chunks,
                   posts, result>>

\* NPVReturn of call c
ConcNPVReturn(c) ==
    /\ pc[c] = "loop"
    /\ i[c] = num_chunks[c]
    /\ LET valuations == valuation_chunks[Accumulators(c)]
           cashflows == cashflow_chunks[Accumulators(c)]
       IN  result' = [result EXCEPT ![c] =
                        <<[valuation |-> Concat(valuations),
                           cashflows |-> IF Len(cashflows) > 0
                                         THEN Concat(cashflows) ELSE EmptyFrame]>>]
    /\ pc' = [pc EXCEPT ![c] = "returned"]
    /\ UNCHANGED <<self, args, df, num_chunks, i, valuation_chunks, cashflow_chunks,
                   posts, logs, raised>>

NextConc ==
    \E c \in Calls :
        \/ ConcNPVEmpty(c)
        \/ ConcNPVStart(c)
        \/ ConcSendChunk(c)
        \/ ConcChunkOk(c)
        \/ ConcChunkPostFails(c)
        \/ ConcNPVReturn(c)

SpecConc == InitConc /\ [][NextConc]_vars

\* What an NPV call with arguments a returns when it runs alone and every
\* chunk is answered: the tables of its rows, chunk by chunk.
RECURSIVE AloneChunks(_, _, _)
AloneChunks(a, d, k) ==
    IF k * self.MAX_ROWS_PER_REQUEST >= Len(d) THEN <<>>
    ELSE <<UnpackResponse(self,
              EndpointResponse(BASE_URL \o Endpoint(self),
                  RequestBody(self, a, ChunkOf(d, self.MAX_ROWS_PER_REQUEST, k))))>>
         \o AloneChunks(a, d, k + 1)

Alone(a) ==
    LET d == MakeCalcBody(self, a)
        chunks == AloneChunks(a, d, 0)
        valuations == [k \in 1..Len(chunks) |-> chunks[k].valuation]
        cashflows == SelectSeq([k \in 1..Len(chunks) |-> chunks[k].cashflows],
                               LAMBDA t : ~IsEmpty(t))
    IN  IF Len(d) = 0 THEN [valuation |-> EmptyFrame, cashflows |-> EmptyFrame]
        ELSE [valuation |-> Concat(valuations),
              cashflows |-> IF Len(cashflows) > 0 THEN Concat(cashflows) ELSE EmptyFrame]

\* C11: however two NPV calls on one instance interleave, a call that returns
\* returns exactly the tables it returns running alone, a call that fails
\* returns nothing, and no step changes the instance's username, password
\* or chunk size.
C11_CallsAreIndependent ==
    /\ [](\A c \in Calls :
            /\ pc[c] = "returned" => result[c] = <<Alone(args[c])>>
            /\ pc[c] # "returned" => result[c] = <<>>)
    /\ [][self' = self]_vars

C11_Witness ==
    /\ pc[1] = "returned"
    /\ Len(posts[1]) = 2
    /\ Len(result[1][1].cashflows) > 0
    /\ pc[2] = "posting"
    /\ Len(valuation_chunks[2]) = 1
    /\ args[2] # args[1]

=============================================================================
